---- MODULE Spec2Model ----
(***************************************************************************)
(* Threadkeeper MCP: an append-only JSON Lines note store behind a fixed   *)
(* set of tool handlers (src/src/index.ts).                                *)
(*                                                                         *)
(* Text is modelled at the level of characters: a JavaScript string is a   *)
(* sequence of one-character values, the store file is the sequence of     *)
(* characters it holds.  JSON.stringify, JSON.parse, String.split and the  *)
(* formatting helpers are computed character by character.                 *)
(***************************************************************************)
EXTENDS Integers, Sequences, FiniteSets, Bags, TLC

(***************************************************************************)
(* Characters.  Printable characters stand for themselves; the characters  *)
(* that JSON and the line splitter treat specially have names.             *)
(***************************************************************************)
\* U+000A, the terminator appendEntry writes and split(/\r?\n/) splits on
LF == "LF"
\* U+000D, optionally consumed before LF by split(/\r?\n/)
CR == "CR"
\* U+0009
TAB == "TAB"
\* U+0008
BS == "BS"
\* U+000C
FF == "FF"
\* U+0001, a control character with no short JSON escape
SOH == "SOH"
\* U+0060
GRAVE == "GRAVE"
\* U+0022, the JSON string delimiter
QUOTE == "QUOTE"
\* U+005C, the JSON escape character
BSL == "BSL"

\* Characters below U+0020: JSON.stringify escapes them, JSON.parse rejects
\* them raw inside a string.
ControlChars == {LF, CR, TAB, BS, FF, SOH}

\* JSON whitespace (ECMA-404): space, tab, line feed, carriage return.
JsonWs == {" ", TAB, LF, CR}

Digits == {"0", "1", "2", "3", "4", "5", "6", "7", "8", "9"}

HexDigits == Digits \cup {"a", "b", "c", "d", "e", "f", "A", "B", "C", "D", "E", "F"}

\* The element of a one-element set.  TheOne({F(x) : x \in {e}}) is F(e)
\* with e computed once, however often F uses x.
TheOne(S) == CHOOSE x \in S : TRUE

\* Concatenation of a sequence of strings.
RECURSIVE Concat(_)
Concat(ss) == IF ss = <<>> THEN <<>> ELSE Head(ss) \o Concat(Tail(ss))

\* Array.prototype.join: the strings of ss with sep between them.
RECURSIVE Join(_, _)
Join(ss, sep) ==
    IF ss = <<>> THEN <<>>
    ELSE IF Len(ss) = 1 THEN ss[1]
    ELSE ss[1] \o sep \o Join(Tail(ss), sep)

(***************************************************************************)
(* An optional field (file?: string, kind?: string) is the empty sequence  *)
(* when undefined and a one-element sequence holding the string otherwise. *)
(***************************************************************************)
Absent == <<>>

Some(s) == <<s>>

(***************************************************************************)
(* JSON.stringify of a NoteEntry.                                          *)
(***************************************************************************)
\* An escape that leaves the control characters as they are.
EscapeCharQuotesOnly(c) ==
    IF c = QUOTE THEN <<BSL, QUOTE>>
    ELSE IF c = BSL THEN <<BSL, BSL>>
    ELSE <<c>>

\* QuoteJSONString's escape of one character.
EscapeChar(c) ==
    IF c = QUOTE THEN <<BSL, QUOTE>>
    ELSE IF c = BSL THEN <<BSL, BSL>>
    ELSE IF c = LF THEN <<BSL, "n">>
    ELSE IF c = CR THEN <<BSL, "r">>
    ELSE IF c = TAB THEN <<BSL, "t">>
    ELSE IF c = BS THEN <<BSL, "b">>
    ELSE IF c = FF THEN <<BSL, "f">>
    ELSE IF c = SOH THEN <<BSL, "u", "0", "0", "0", "1">>
    ELSE <<c>>

RECURSIVE EscapeAll(_)
EscapeAll(s) == IF s = <<>> THEN <<>> ELSE EscapeChar(Head(s)) \o EscapeAll(Tail(s))

\* JSON.stringify of a string.
QuoteJSON(s) == <<QUOTE>> \o EscapeAll(s) \o <<QUOTE>>

KeyId == <<"i", "d">>

KeyTimestamp == <<"t", "i", "m", "e", "s", "t", "a", "m", "p">>

KeyText == <<"t", "e", "x", "t">>

KeyFile == <<"f", "i", "l", "e">>

KeyKind == <<"k", "i", "n", "d">>

\* One "key":"value" member.
Member(key, s) == QuoteJSON(key) \o <<":">> \o QuoteJSON(s)

\* JSON.stringify(entry): the properties in creation order (id, timestamp,
\* text, file, kind), those whose value is undefined left out.
Stringify(entry) ==
    LET members ==
            <<Member(KeyId, entry.id), Member(KeyTimestamp, entry.timestamp),
              Member(KeyText, entry.text)>>
            \o (IF entry.file = Absent THEN <<>> ELSE <<Member(KeyFile, entry.file[1])>>)
            \o (IF entry.kind = Absent THEN <<>> ELSE <<Member(KeyKind, entry.kind[1])>>)
    IN  <<"{">> \o Join(members, <<",">>) \o <<"}">>

(***************************************************************************)
(* JSON.parse.  A recursive-descent parser of the JSON grammar (ECMA-404)  *)
(* over the characters above.  A parse result is a record                  *)
(*   ok   whether a value was parsed                                       *)
(*   pos  the index after the value                                        *)
(*   t    the typeof class of the value: "string", "number", "boolean",    *)
(*        "null", "array" or "object"                                      *)
(*   str  the characters of a string value                                 *)
(*   mem  the members of an object value, in source order, each a record   *)
(*        [key, t, str]                                                    *)
(***************************************************************************)
\* The character at index i, or a value no character equals past the end.
At(s, i) == IF i >= 1 /\ i <= Len(s) THEN s[i] ELSE "EOF"

ParseFail == [ok |-> FALSE, pos |-> 0, t |-> "", str |-> <<>>, mem |-> <<>>]

Parsed(p, ty, chars, members) ==
    [ok |-> TRUE, pos |-> p, t |-> ty, str |-> chars, mem |-> members]

\* The index of the first character from index i on that is no JSON
\* whitespace, Len(s) + 1 if there is none.
SkipWs(s, i) ==
    CHOOSE j \in i..(Len(s) + 1) :
        /\ At(s, j) \notin JsonWs
        /\ \A k \in i..(j - 1) : s[k] \in JsonWs

\* The same for the decimal digits.
SkipDigits(s, i) ==
    CHOOSE j \in i..(Len(s) + 1) :
        /\ At(s, j) \notin Digits
        /\ \A k \in i..(j - 1) : s[k] \in Digits

\* The printable ASCII characters, U+0020 .. U+007E, in code order.
PrintableAscii ==
    <<" ", "!", QUOTE, "#", "$", "%", "&", "'", "(", ")", "*", "+", ",",
      "-", ".", "/", "0", "1", "2", "3", "4", "5", "6", "7", "8", "9", ":",
      ";", "<", "=", ">", "?", "@", "A", "B", "C", "D", "E", "F", "G", "H",
      "I", "J", "K", "L", "M", "N", "O", "P", "Q", "R", "S", "T", "U", "V",
      "W", "X", "Y", "Z", "[", BSL, "]", "^", "_", GRAVE, "a", "b", "c", "d",
      "e", "f", "g", "h", "i", "j", "k", "l", "m", "n", "o", "p", "q", "r",
      "s", "t", "u", "v", "w", "x", "y", "z", "{", "|", "}", "~">>

HexVal(c) ==
    CASE c \in Digits -> CHOOSE n \in 0..9 : PrintableAscii[n + 17] = c
      [] c \in {"a", "A"} -> 10
      [] c \in {"b", "B"} -> 11
      [] c \in {"c", "C"} -> 12
      [] c \in {"d", "D"} -> 13
      [] c \in {"e", "E"} -> 14
      [] c \in {"f", "F"} -> 15

\* The character of a \uXXXX escape.  Code units outside ASCII all read as
\* one character, "NONASCII"; no file of the model holds such an escape.
CharOfCode(n) ==
    IF n \in 32..126 THEN PrintableAscii[n - 31]
    ELSE IF n = 1 THEN SOH
    ELSE IF n = 8 THEN BS
    ELSE IF n = 9 THEN TAB
    ELSE IF n = 12 THEN FF
    ELSE IF n = 10 THEN LF
    ELSE IF n = 13 THEN CR
    ELSE "NONASCII"

\* The character a two-character escape \c stands for, <<>> if \c is none.
SimpleEscape(c) ==
    IF c = QUOTE THEN <<QUOTE>>
    ELSE IF c = BSL THEN <<BSL>>
    ELSE IF c = "/" THEN <<"/">>
    ELSE IF c = "n" THEN <<LF>>
    ELSE IF c = "r" THEN <<CR>>
    ELSE IF c = "t" THEN <<TAB>>
    ELSE IF c = "b" THEN <<BS>>
    ELSE IF c = "f" THEN <<FF>>
    ELSE <<>>

\* What ends a run of plain characters inside a string literal: the closing
\* quote, an escape, a raw control character, the end of the text.
StringStops == {QUOTE, BSL, "EOF"} \cup ControlChars

\* The index of the first such character from index i on.
StringStop(s, i) ==
    CHOOSE j \in i..(Len(s) + 1) :
        /\ At(s, j) \in StringStops
        /\ \A k \in i..(j - 1) : s[k] \notin StringStops

\* The rest of a string literal from index i (after the opening quote), acc
\* the characters read so far.
RECURSIVE StringBody(_, _, _)
StringBody(s, i, acc) ==
    LET From(j) ==
            LET c == At(s, j)
                e == At(s, j + 1)
                got == acc \o SubSeq(s, i, j - 1)
            IN  IF c = QUOTE THEN Parsed(j + 1, "string", got, <<>>)
                ELSE IF c # BSL THEN ParseFail
                ELSE IF SimpleEscape(e) # <<>>
                THEN StringBody(s, j + 2, got \o SimpleEscape(e))
                ELSE IF e = "u" /\ \A k \in 2..5 : At(s, j + k) \in HexDigits
                THEN StringBody(s, j + 6,
                         Append(got, CharOfCode(4096 * HexVal(s[j + 2])
                             + 256 * HexVal(s[j + 3]) + 16 * HexVal(s[j + 4])
                             + HexVal(s[j + 5]))))
                ELSE ParseFail
    IN  TheOne({From(j) : j \in {StringStop(s, i)}})

\* Whether the characters of word stand in s from index i.
StartsWithAt(s, i, word) == \A k \in 1..Len(word) : At(s, i + k - 1) = word[k]

\* -? (0 | [1-9][0-9]*) (. [0-9]+)? ([eE] [+-]? [0-9]+)?
ParseNumber(s, i) ==
    LET a == IF At(s, i) = "-" THEN i + 1 ELSE i
        b == IF At(s, a) \notin Digits THEN 0
             ELSE IF At(s, a) = "0" THEN a + 1
             ELSE SkipDigits(s, a + 1)
        c == IF b = 0 THEN 0
             ELSE IF At(s, b) # "." THEN b
             ELSE IF At(s, b + 1) \in Digits THEN SkipDigits(s, b + 2)
             ELSE 0
        x == IF At(s, c + 1) \in {"+", "-"} THEN c + 2 ELSE c + 1
        d == IF c = 0 THEN 0
             ELSE IF At(s, c) \notin {"e", "E"} THEN c
             ELSE IF At(s, x) \in Digits THEN SkipDigits(s, x + 1)
             ELSE 0
    IN  IF d = 0 THEN ParseFail ELSE Parsed(d, "number", <<>>, <<>>)

RECURSIVE ParseValue(_, _)
RECURSIVE ParseMembers(_, _, _)
RECURSIVE ParseElements(_, _)

\* One member of an object from index i, where its key must start: the key,
\* a colon, the value.  pos is the index after the value and the whitespace
\* that follows it.
ParseMember(s, i) ==
    LET Fail == [ok |-> FALSE, pos |-> 0, key |-> <<>>, t |-> "", str |-> <<>>]
        Value(k, v) ==
            IF ~v.ok THEN Fail
            ELSE [ok |-> TRUE, pos |-> SkipWs(s, v.pos), key |-> k.str, t |-> v.t,
                  str |-> v.str]
        Colon(k, c) ==
            IF At(s, c) # ":" THEN Fail
            ELSE TheOne({Value(k, v) : v \in {ParseValue(s, SkipWs(s, c + 1))}})
        Key(k) ==
            IF ~k.ok THEN Fail
            ELSE TheOne({Colon(k, c) : c \in {SkipWs(s, k.pos)}})
    IN  IF At(s, i) # QUOTE THEN Fail
        ELSE TheOne({Key(k) : k \in {StringBody(s, i + 1, <<>>)}})

\* The members of an object from index i, where a key must start; acc the
\* members read so far.
ParseMembers(s, i, acc) ==
    LET After(m) ==
            LET all == Append(acc, [key |-> m.key, t |-> m.t, str |-> m.str])
            IN  IF ~m.ok THEN ParseFail
                ELSE IF At(s, m.pos) = ","
                THEN ParseMembers(s, SkipWs(s, m.pos + 1), all)
                ELSE IF At(s, m.pos) = "}" THEN Parsed(m.pos + 1, "object", <<>>, all)
                ELSE ParseFail
    IN  TheOne({After(m) : m \in {ParseMember(s, i)}})

\* The elements of an array from index i, where a value must start.
ParseElements(s, i) ==
    LET After(v, a) ==
            IF At(s, a) = "," THEN ParseElements(s, SkipWs(s, a + 1))
            ELSE IF At(s, a) = "]" THEN Parsed(a + 1, "array", <<>>, <<>>)
            ELSE ParseFail
        Value(v) ==
            IF ~v.ok THEN ParseFail
            ELSE TheOne({After(v, a) : a \in {SkipWs(s, v.pos)}})
    IN  TheOne({Value(v) : v \in {ParseValue(s, i)}})

\* The JSON value that starts at index i (whitespace already skipped).
ParseValue(s, i) ==
    LET c == At(s, i)
        Object(n) ==
            IF At(s, n) = "}" THEN Parsed(n + 1, "object", <<>>, <<>>)
            ELSE ParseMembers(s, n, <<>>)
        Array(n) ==
            IF At(s, n) = "]" THEN Parsed(n + 1, "array", <<>>, <<>>)
            ELSE ParseElements(s, n)
    IN  IF c = QUOTE THEN StringBody(s, i + 1, <<>>)
        ELSE IF c = "{" THEN TheOne({Object(n) : n \in {SkipWs(s, i + 1)}})
        ELSE IF c = "[" THEN TheOne({Array(n) : n \in {SkipWs(s, i + 1)}})
        ELSE IF StartsWithAt(s, i, <<"t", "r", "u", "e">>)
        THEN Parsed(i + 4, "boolean", <<>>, <<>>)
        ELSE IF StartsWithAt(s, i, <<"f", "a", "l", "s", "e">>)
        THEN Parsed(i + 5, "boolean", <<>>, <<>>)
        ELSE IF StartsWithAt(s, i, <<"n", "u", "l", "l">>)
        THEN Parsed(i + 4, "null", <<>>, <<>>)
        ELSE IF c = "-" \/ c \in Digits THEN ParseNumber(s, i)
        ELSE ParseFail

\* JSON.parse(line): one value between optional whitespace, nothing after
\* it; ok is FALSE where JSON.parse throws a SyntaxError.
JsonParse(line) ==
    LET Value(s, v) ==
            IF v.ok /\ SkipWs(s, v.pos) = Len(s) + 1 THEN v ELSE ParseFail
        Text(s) == TheOne({Value(s, v) : v \in {ParseValue(s, SkipWs(s, 1))}})
    IN  TheOne({Text(s) : s \in {line}})

(***************************************************************************)
(* isNoteEntry and loadEntries.                                            *)
(***************************************************************************)
\* record[key] of a parsed object: the last member with that key, or
\* undefined.
Property(value, key) ==
    LET at == {i \in 1..Len(value.mem) : value.mem[i].key = key}
    IN  IF at = {} THEN [key |-> key, t |-> "undefined", str |-> <<>>]
        ELSE value.mem[CHOOSE i \in at : \A j \in at : j <= i]

TypeofField(value, key) == Property(value, key).t

\* An isNoteEntry that takes kind for a required field.
isNoteEntryStrict(value) ==
    /\ value.t \in {"object", "array"}
    /\ TypeofField(value, KeyId) = "string"
    /\ TypeofField(value, KeyTimestamp) = "string"
    /\ TypeofField(value, KeyText) = "string"
    /\ TypeofField(value, KeyFile) \in {"undefined", "string"}
    /\ TypeofField(value, KeyKind) = "string"

\* isNoteEntry(value): typeof value is "object" for objects and arrays; an
\* array has none of the properties.
isNoteEntry(value) ==
    /\ value.t \in {"object", "array"}
    /\ TypeofField(value, KeyId) = "string"
    /\ TypeofField(value, KeyTimestamp) = "string"
    /\ TypeofField(value, KeyText) = "string"
    /\ TypeofField(value, KeyFile) \in {"undefined", "string"}
    /\ TypeofField(value, KeyKind) \in {"undefined", "string"}

\* An optional field of a parsed object.
OptionalField(value, key) ==
    IF TypeofField(value, key) = "undefined" THEN Absent
    ELSE Some(Property(value, key).str)

\* The NoteEntry a parsed object is read as.
AsEntry(value) ==
    [id |-> Property(value, KeyId).str,
     timestamp |-> Property(value, KeyTimestamp).str,
     text |-> Property(value, KeyText).str,
     file |-> OptionalField(value, KeyFile),
     kind |-> OptionalField(value, KeyKind)]

\* The indexes of the line feeds of text.
LineBreaks(text) == {i \in 1..Len(text) : text[i] = LF}

\* text.split(/\r?\n/): the pieces of text between its separators, in
\* order.  A separator is a LF together with one CR right before it; the
\* piece after the last separator (all of text if there is none) is the
\* last line, empty when text ends with a separator.
SplitLines(text) ==
    LET brk == LineBreaks(text)
        n == Cardinality(brk)
        at(k) == IF k = 0 THEN 0
                 ELSE IF k = n + 1 THEN Len(text) + 1
                 ELSE CHOOSE i \in brk : Cardinality({j \in brk : j <= i}) = k
        line(k) ==
            LET from == at(k - 1) + 1
                to == at(k) - 1
            IN  IF k <= n /\ to >= from /\ text[to] = CR
                THEN SubSeq(text, from, to - 1)
                ELSE SubSeq(text, from, to)
    IN  [k \in 1..(n + 1) |-> line(k)]

LoadOk(entries) == [ok |-> TRUE, entries |-> entries, line |-> 0, why |-> "none"]

\* A LoadError that numbers the lines from 0, as the loop index does.
LoadErrorZeroBased(why, n) ==
    [ok |-> FALSE, entries |-> <<>>, line |-> n - 1, why |-> why]

\* The Error loadEntries throws: why is "format" (JSON.parse threw) or
\* "entry" (isNoteEntry refused the value), line the 1-based line number.
LoadError(why, n) == [ok |-> FALSE, entries |-> <<>>, line |-> n, why |-> why]

\* The loop of loadEntries from line i, entries the entries pushed so far.
RECURSIVE LoadFrom(_, _, _)
LoadFrom(lines, i, entries) ==
    IF i > Len(lines) THEN LoadOk(entries)
    ELSE IF lines[i] = <<>> THEN LoadFrom(lines, i + 1, entries)
    ELSE LET Line(parsed) ==
                 IF ~parsed.ok THEN LoadError("format", i)
                 ELSE IF ~isNoteEntry(parsed) THEN LoadError("entry", i)
                 ELSE LoadFrom(lines, i + 1, Append(entries, AsEntry(parsed)))
         IN  TheOne({Line(parsed) : parsed \in {JsonParse(lines[i])}})

\* loadEntries(storePath), f the store file: [exists, content].
loadEntries(f) ==
    IF ~f.exists THEN LoadOk(<<>>)
    ELSE TheOne({LoadFrom(lines, 1, <<>>) : lines \in {SplitLines(f.content)}})

(***************************************************************************)
(* makeEntry, formatEntry, formatEntries.                                  *)
(***************************************************************************)
\* makeEntry(params): id is the value crypto.randomUUID() returned and now
\* the value of new Date().toISOString(); timestamp ?? now keeps every
\* string given, the empty one included.
makeEntry(text, fileArg, timestampArg, kindArg, id, now) ==
    [id |-> id,
     timestamp |-> IF timestampArg = Absent THEN now ELSE timestampArg[1],
     text |-> text,
     file |-> fileArg,
     kind |-> kindArg]

\* JavaScript truthiness of an optional string: undefined and "" are falsy.
Truthy(opt) == opt # Absent /\ opt[1] # <<>>

formatEntry(entry) ==
    LET lines ==
            <<<<"i", "d", ":", " ">> \o entry.id,
              <<"t", "i", "m", "e", "s", "t", "a", "m", "p", ":", " ">> \o entry.timestamp>>
            \o (IF Truthy(entry.kind)
                THEN <<<<"k", "i", "n", "d", ":", " ">> \o entry.kind[1]>> ELSE <<>>)
            \o (IF Truthy(entry.file)
                THEN <<<<"f", "i", "l", "e", ":", " ">> \o entry.file[1]>> ELSE <<>>)
            \o <<<<"t", "e", "x", "t", ":">>>>
            \o <<entry.text>>
    IN  Join(lines, <<LF>>)

formatEntries(entries, emptyMessage) ==
    IF Len(entries) = 0 THEN emptyMessage
    ELSE Join([i \in 1..Len(entries) |-> formatEntry(entries[i])], <<LF, LF>>)

\* String(n) of a line number.
RECURSIVE ToDecimal(_)
ToDecimal(n) ==
    IF n < 10 THEN <<PrintableAscii[n + 17]>>
    ELSE ToDecimal(n \div 10) \o <<PrintableAscii[(n % 10) + 17]>>

\* The message of the Error loadEntries throws.
LoadErrorMessage(r) ==
    (IF r.why = "format"
     THEN <<  "I", "n", "v", "a", "l", "i", "d", " ", "n", "o", "t", "e", " ", "s",
      "t", "o", "r", "e", " ", "f", "o", "r", "m", "a", "t", " ", "a", "t",
      " ", "l", "i", "n", "e", " ">>
     ELSE <<  "I", "n", "v", "a", "l", "i", "d", " ", "n", "o", "t", "e", " ", "e",
      "n", "t", "r", "y", " ", "a", "t", " ", "l", "i", "n", "e", " ">>)
    \o ToDecimal(r.line) \o <<".">>

RefusalText ==
    <<  "R", "e", "f", "u", "s", "i", "n", "g", " ", "t", "o", " ", "s", "t",
      "o", "r", "e", " ", "u", "n", "a", "p", "p", "r", "o", "v", "e", "d",
      " ", "t", "e", "x", "t", ".", " ", "A", "s", "k", " ", "t", "h", "e",
      " ", "u", "s", "e", "r", " ", "t", "o", " ", "c", "o", "n", "f", "i",
      "r", "m", " ", "v", "e", "r", "b", "a", "t", "i", "m", " ", "t", "e",
      "x", "t", " ", "b", "e", "f", "o", "r", "e", " ", "s", "t", "o", "r",
      "i", "n", "g", ".">>

NoNotesStored == <<  "N", "o", " ", "n", "o", "t", "e", "s", " ", "s", "t", "o", "r", "e",
      "d", ".">>

NoNotesForKind(kind) ==
    <<  "N", "o", " ", "n", "o", "t", "e", "s", " ", "f", "o", "u", "n", "d",
      " ", "f", "o", "r", " ", "k", "i", "n", "d", " ">> \o kind \o <<".">>

NoNoteForId(id) ==
    <<  "N", "o", " ", "n", "o", "t", "e", " ", "f", "o", "u", "n", "d", " ",
      "f", "o", "r", " ", "i", "d", " ">> \o id \o <<".">>

NoNotesMatched ==
    <<  "N", "o", " ", "n", "o", "t", "e", "s", " ", "m", "a", "t", "c", "h",
      "e", "d", " ", "t", "h", "e", " ", "e", "x", "a", "c", "t", " ", "s",
      "u", "b", "s", "t", "r", "i", "n", "g", ".">>

StoredNote(id) == <<"S", "t", "o", "r", "e", "d", " ", "n", "o", "t", "e", " ">> \o id \o <<".">>

KindTeachRequest == <<"t", "e", "a", "c", "h", ".", "r", "e", "q", "u", "e", "s", "t">>

KindTeachNote == <<"t", "e", "a", "c", "h", ".", "n", "o", "t", "e">>

\* The message of a file system error (mkdir or appendFile rejecting).
IoErrorMessage == <<  "E", "A", "C", "C", "E", "S", ":", " ", "p", "e", "r", "m", "i", "s",
      "s", "i", "o", "n", " ", "d", "e", "n", "i", "e", "d">>

\* String.prototype.includes: needle stands in text at some index.
Includes(text, needle) ==
    \E i \in 0..(Len(text) - Len(needle)) :
        SubSeq(text, i + 1, i + Len(needle)) = needle

\* A comparison that takes a kind that starts with the query for a match.
KindStartsWith(entry, kind) ==
    entry.kind # Absent /\ SubSeq(entry.kind[1], 1, Len(kind)) = kind

\* entry.kind === kind, kind a string.
KindIs(entry, kind) == entry.kind = Some(kind)

\* entries.filter((entry) => entry.kind === kind)
MatchesOfKind(entries, kind) ==
    LET keep(e) == KindIs(e, kind) IN SelectSeq(entries, keep)

\* entries.filter((entry) => entry.text.includes(contains))
MatchesContaining(entries, contains) ==
    LET keep(e) == Includes(e.text, contains) IN SelectSeq(entries, keep)

\* A search that returns the last entry with that id.
FindByIdLast(entries, id) ==
    LET at == {i \in 1..Len(entries) : entries[i].id = id}
    IN  IF at = {} THEN 0 ELSE CHOOSE i \in at : \A j \in at : j <= i

\* entries.find((item) => item.id === id): the index of the first entry
\* with that id, 0 when find returns undefined.
FindById(entries, id) ==
    LET at == {i \in 1..Len(entries) : entries[i].id = id}
    IN  IF at = {} THEN 0 ELSE CHOOSE i \in at : \A j \in at : i <= j

(***************************************************************************)
(* Bounds and input sets.                                                  *)
(***************************************************************************)
\* Approved write calls the server accepts in one run.
MaxServed == 1

\* Approved write calls of a run of writers only.
MaxWrites == 2

\* Pieces a store file found at startup is put together from.
MaxInitPieces == 2

\* Longest text of an entry of the codec specification.
MaxTextLen == 2

\* Lines that decode to a NoteEntry.
LineA == <<  "{", QUOTE, "i", "d", QUOTE, ":", QUOTE, "a", "1", QUOTE, ",", QUOTE,
      "t", "i", "m", "e", "s", "t", "a", "m", "p", QUOTE, ":", QUOTE, "t",
      QUOTE, ",", QUOTE, "t", "e", "x", "t", QUOTE, ":", QUOTE, "x", "a",
      "y", QUOTE, "}">>

LineA2 == <<  "{", QUOTE, "i", "d", QUOTE, ":", QUOTE, "a", "1", QUOTE, ",", QUOTE,
      "t", "i", "m", "e", "s", "t", "a", "m", "p", QUOTE, ":", QUOTE, "t",
      QUOTE, ",", QUOTE, "t", "e", "x", "t", QUOTE, ":", QUOTE, "X", "a",
      QUOTE, ",", QUOTE, "k", "i", "n", "d", QUOTE, ":", QUOTE, "k", QUOTE,
      "}">>

LineB == <<  "{", QUOTE, "i", "d", QUOTE, ":", QUOTE, "b", "2", QUOTE, ",", QUOTE,
      "t", "i", "m", "e", "s", "t", "a", "m", "p", QUOTE, ":", QUOTE, "t",
      QUOTE, ",", QUOTE, "t", "e", "x", "t", QUOTE, ":", QUOTE, QUOTE, ",",
      QUOTE, "k", "i", "n", "d", QUOTE, ":", QUOTE, "k", "k", QUOTE, ",",
      QUOTE, "f", "i", "l", "e", QUOTE, ":", QUOTE, "f", QUOTE, "}">>

LineC ==
    <<  "{", " ", QUOTE, "k", "i", "n", "d", QUOTE, ":", QUOTE, "K", QUOTE,
      ",", " ", QUOTE, "t", "e", "x", "t", QUOTE, ":", QUOTE, "a", BSL,
      "n", "x", QUOTE, ",", " ", QUOTE, "i", "d", QUOTE, ":", QUOTE, "b",
      "2", QUOTE, ",", " ", QUOTE, "i", "d", QUOTE, ":", QUOTE, "c", "3",
      QUOTE, ",", " ", QUOTE, "t", "i", "m", "e", "s", "t", "a", "m", "p",
      QUOTE, ":", QUOTE, "t", QUOTE, ",", " ", QUOTE, "m", "o", "r", "e",
      QUOTE, ":", "[", "1", ",", "{", QUOTE, "i", "d", QUOTE, ":", "n",
      "u", "l", "l", "}", "]", " ", "}">>

LineD == <<  "{", QUOTE, "i", "d", QUOTE, ":", QUOTE, "d", "4", QUOTE, ",", QUOTE,
      "t", "i", "m", "e", "s", "t", "a", "m", "p", QUOTE, ":", QUOTE,
      QUOTE, ",", QUOTE, "t", "e", "x", "t", QUOTE, ":", QUOTE, "x", QUOTE,
      ",", QUOTE, "k", "i", "n", "d", QUOTE, ":", QUOTE, QUOTE, ",", QUOTE,
      "f", "i", "l", "e", QUOTE, ":", QUOTE, QUOTE, "}">>

\* Lines that do not: no JSON text, a required field missing, a field of a
\* wrong type, a value that is no object, whitespace alone.
LineBadJson == <<  "{", QUOTE, "i", "d", QUOTE, ":", QUOTE, "a", "1", QUOTE, ",", QUOTE,
      "t", "i", "m", "e", "s", "t", "a", "m", "p", QUOTE, ":", QUOTE, "t",
      QUOTE, ",", QUOTE, "t", "e", "x", "t", QUOTE, ":", QUOTE, "x", QUOTE>>

LineNoTimestamp == <<  "{", QUOTE, "i", "d", QUOTE, ":", QUOTE, "a", "1", QUOTE, ",", QUOTE,
      "t", "e", "x", "t", QUOTE, ":", QUOTE, "x", QUOTE, "}">>

LineNullKind == <<  "{", QUOTE, "i", "d", QUOTE, ":", QUOTE, "a", "1", QUOTE, ",", QUOTE,
      "t", "i", "m", "e", "s", "t", "a", "m", "p", QUOTE, ":", QUOTE, "t",
      QUOTE, ",", QUOTE, "t", "e", "x", "t", QUOTE, ":", QUOTE, "x", QUOTE,
      ",", QUOTE, "k", "i", "n", "d", QUOTE, ":", "n", "u", "l", "l", "}">>

LineNumberId == <<  "{", QUOTE, "i", "d", QUOTE, ":", "1", ",", QUOTE, "t", "i", "m",
      "e", "s", "t", "a", "m", "p", QUOTE, ":", QUOTE, "t", QUOTE, ",",
      QUOTE, "t", "e", "x", "t", QUOTE, ":", QUOTE, "x", QUOTE, "}">>

LineFalseFile == <<  "{", QUOTE, "i", "d", QUOTE, ":", QUOTE, "a", "1", QUOTE, ",", QUOTE,
      "t", "i", "m", "e", "s", "t", "a", "m", "p", QUOTE, ":", QUOTE, "t",
      QUOTE, ",", QUOTE, "t", "e", "x", "t", QUOTE, ":", QUOTE, "x", QUOTE,
      ",", QUOTE, "f", "i", "l", "e", QUOTE, ":", "f", "a", "l", "s", "e",
      "}">>

LineNull == <<"n", "u", "l", "l">>

LineSpace == <<" ">>

\* A piece of a store file: a line with its terminator (LF or CR LF), a
\* blank line, or a line with no terminator.
Pieces ==
    {l \o <<LF>> : l \in {LineA, LineA2, LineB, LineD, LineBadJson}}
    \cup {LineA \o <<CR, LF>>, <<CR, LF>>, LineA2, LineD \o <<CR>>}

\* Lines met more rarely: an entry written by another program, and further
\* lines that decode to no NoteEntry.
RareLines ==
    {LineC, LineNoTimestamp, LineNullKind, LineNumberId, LineFalseFile, LineNull,
     LineSpace}

\* The sequences of n pieces.
RECURSIVE PieceSeqs(_)
PieceSeqs(n) ==
    IF n = 0 THEN {<<>>}
    ELSE {Append(ps, p) : ps \in PieceSeqs(n - 1), p \in Pieces}

NoFile == [exists |-> FALSE, content |-> <<>>]

FileOf(content) == [exists |-> TRUE, content |-> content]

\* Contents of the store file at startup, as left by earlier runs or by
\* hand: every concatenation of at most MaxInitPieces pieces, and each rare
\* line as the first line and after a line and a blank line.
InitContents ==
    {Concat(ps) : ps \in UNION {PieceSeqs(n) : n \in 0..MaxInitPieces}}
    \cup {before \o l \o <<LF>> : before \in {<<>>, LineB \o <<CR, LF, LF>>},
                                  l \in RareLines}

\* Store files the server is started on: none, an empty one, lines ended
\* by LF and by CR LF with a blank line, a last line with no terminator
\* or ended by a lone CR, a line that does not decode.
StartFiles ==
    {NoFile, FileOf(LineA \o <<CR, LF, LF>> \o LineB \o <<LF>>), FileOf(LineA2),
     FileOf(LineD \o <<CR>>), FileOf(LineA \o <<LF>> \o LineBadJson \o <<LF>>)}

\* Stores with no entry: no file, an empty file, blank lines only.
FreshFiles == {NoFile, FileOf(<<>>), FileOf(<<LF, CR, LF>>)}

\* Arguments of notes.store: text, file?, timestamp?, kind?.
StoreArgs ==
    {[text |-> <<"x">>, file |-> Absent, timestamp |-> Absent, kind |-> Absent],
     [text |-> <<"a", LF, QUOTE, BSL>>, file |-> Some(<<"f">>),
      timestamp |-> Some(<<>>), kind |-> Some(<<"k">>)]}

\* Arguments of teach.request (question) and teach.note (text): the text,
\* file?, timestamp?.
TeachArgs == {[text |-> <<"q", CR, LF>>, file |-> Absent, timestamp |-> Some(<<"T">>)]}

\* Values crypto.randomUUID() returns, one per call accepted.
Uuids == <<<<"e", "1">>, <<"e", "2">>, <<"e", "3">>, <<"e", "4">>>>

\* Values new Date().toISOString() returns.
Clock == {<<"2", "0", "2", "6">>}

KindQueries == {<<"k">>, <<>>}

IdQueries == {<<"a", "1">>, <<"b", "2">>}

Needles == {<<"x">>, <<>>}

Questions == {<<"w", LF, "?">>}

(***************************************************************************)
(* State.                                                                  *)
(***************************************************************************)
VARIABLES
    file,       \* the store file: [exists, content]
    dirExists,  \* whether the directory of the store file exists
    writes,     \* the approved write calls, in call order: [op, entry, pc],
                \* pc the next step of appendEntry ("mkdir", "append"),
                \* "done" once the handler returned, "failed" once it threw
    resp,       \* the last response sent: [op, arg, outcome, text]
    file0       \* the store file as it was at startup

vars == <<file, dirExists, writes, resp, file0>>

WriteOps == {"notes.store", "teach.request", "teach.note"}

StoreReadOps == {"notes.list", "notes.list_kind", "notes.get", "notes.find"}

ReadOps == StoreReadOps \cup {"questions.ask", "teach.ask"}

\* A tool result: outcome is "ok" (a result), "isError" (a result with
\* isError: true) or "throws" (the handler rejected with an Error of that
\* message).
Response(op, arg, outcome, text) ==
    [op |-> op, arg |-> arg, outcome |-> outcome, text |-> text]

NoResponse == Response("none", <<>>, "ok", <<>>)

InitWith(files) ==
    /\ file \in files
    /\ dirExists \in (IF file.exists THEN {TRUE} ELSE BOOLEAN)
    /\ writes = <<>>
    /\ resp = NoResponse
    /\ file0 = file

Init == InitWith(StartFiles)

(***************************************************************************)
(* Write handlers: notes.store, teach.request, teach.note.  limit is the   *)
(* number of approved calls a run accepts.                                 *)
(***************************************************************************)
\* A refusal that comes after the store file was opened for appending.
RefuseTouching(op) ==
    /\ resp' = Response(op, <<>>, "isError", RefusalText)
    /\ file' = FileOf(file.content)
    /\ UNCHANGED <<dirExists, writes, file0>>

\* The approval gate of the three write handlers: approved false returns
\* the refusal before anything else is done.
Refuse(op) ==
    /\ resp' = Response(op, <<>>, "isError", RefusalText)
    /\ UNCHANGED <<file, dirExists, writes, file0>>

\* An approved call up to its first await: the entry is made, and
\* appendEntry is about to create the directory.
Accept(op, entry) ==
    /\ writes' = Append(writes, [op |-> op, entry |-> entry, pc |-> "mkdir"])
    /\ UNCHANGED <<file, dirExists, resp, file0>>

\* crypto.randomUUID() of the call being accepted.
NextUuid == Uuids[Len(writes) + 1]

NotesStore(args, limit) ==
    \E approved \in BOOLEAN :
        IF ~approved THEN Refuse("notes.store")
        ELSE /\ Len(writes) < limit
             /\ \E a \in args, now \in Clock :
                    Accept("notes.store",
                           makeEntry(a.text, a.file, a.timestamp, a.kind, NextUuid, now))

TeachRequest(limit) ==
    \E approved \in BOOLEAN :
        IF ~approved THEN Refuse("teach.request")
        ELSE /\ Len(writes) < limit
             /\ \E a \in TeachArgs, now \in Clock :
                    Accept("teach.request",
                           makeEntry(a.text, a.file, a.timestamp,
                                     Some(KindTeachRequest), NextUuid, now))

TeachNote(limit) ==
    \E approved \in BOOLEAN :
        IF ~approved THEN Refuse("teach.note")
        ELSE /\ Len(writes) < limit
             /\ \E a \in TeachArgs, now \in Clock :
                    Accept("teach.note",
                           makeEntry(a.text, a.file, a.timestamp,
                                     Some(KindTeachNote), NextUuid, now))

\* A call whose mkdir or appendFile rejects: the handler throws, nothing
\* is written.
Fails(i) ==
    /\ writes' = [writes EXCEPT ![i].pc = "failed"]
    /\ resp' = Response(writes[i].op, <<>>, "throws", IoErrorMessage)
    /\ UNCHANGED <<file, dirExists, file0>>

\* ensureStoreDir: fs.mkdir(dirname, {recursive: true}) of call i.
EnsureStoreDir(i) ==
    /\ writes[i].pc = "mkdir"
    /\ \/ /\ dirExists' = TRUE
          /\ writes' = [writes EXCEPT ![i].pc = "append"]
          /\ UNCHANGED <<file, resp, file0>>
       \/ Fails(i)

\* The file after fs.writeFile(storePath, data), which replaces the content.
AppendedTruncating(f, data) == FileOf(data)

\* The file after fs.appendFile(storePath, data): created if absent, data
\* added at its end in one write.
Appended(f, data) == FileOf(f.content \o data)

\* A line written with no terminator.
EntryLineBare(entry) == Stringify(entry)

\* The data appendEntry writes, JSON.stringify(entry) and a line feed.
EntryLine(entry) == Stringify(entry) \o <<LF>>

\* What the handler returns once appendEntry is done.
WriteResult(w) ==
    Response(w.op, <<>>, "ok",
             IF w.op = "notes.store" THEN StoredNote(w.entry.id)
             ELSE formatEntry(w.entry))

\* fs.appendFile of call i, and the handler's return.
AppendFile(i) ==
    /\ writes[i].pc = "append"
    /\ \/ /\ file' = Appended(file, EntryLine(writes[i].entry))
          /\ writes' = [writes EXCEPT ![i].pc = "done"]
          /\ resp' = WriteResult(writes[i])
          /\ UNCHANGED <<dirExists, file0>>
       \/ Fails(i)

(***************************************************************************)
(* Read handlers.                                                          *)
(***************************************************************************)
\* What a handler makes of the Error loadEntries threw: it rejects with it.
Rethrow(op, arg, loaded) == Response(op, arg, "throws", LoadErrorMessage(loaded))

ListResult(entries) ==
    Response("notes.list", <<>>, "ok", formatEntries(entries, NoNotesStored))

\* A notes.list that opens the store file for appending before it reads.
NotesListCreating ==
    \E loaded \in {loadEntries(file)} :
        /\ resp' = IF loaded.ok THEN ListResult(loaded.entries)
                   ELSE Rethrow("notes.list", <<>>, loaded)
        /\ file' = FileOf(file.content)
        /\ UNCHANGED <<dirExists, writes, file0>>

NotesList ==
    \E loaded \in {loadEntries(file)} :
        /\ resp' = IF loaded.ok THEN ListResult(loaded.entries)
                   ELSE Rethrow("notes.list", <<>>, loaded)
        /\ UNCHANGED <<file, dirExists, writes, file0>>

ListKindResult(entries, kind) ==
    Response("notes.list_kind", kind, "ok",
             formatEntries(MatchesOfKind(entries, kind), NoNotesForKind(kind)))

NotesListKind ==
    \E loaded \in {loadEntries(file)} :
        \E kind \in KindQueries :
            /\ resp' = IF loaded.ok THEN ListKindResult(loaded.entries, kind)
                       ELSE Rethrow("notes.list_kind", kind, loaded)
            /\ UNCHANGED <<file, dirExists, writes, file0>>

GetResult(entries, id) ==
    IF FindById(entries, id) = 0
    THEN Response("notes.get", id, "isError", NoNoteForId(id))
    ELSE Response("notes.get", id, "ok", formatEntry(entries[FindById(entries, id)]))

NotesGet ==
    \E loaded \in {loadEntries(file)} :
        \E id \in IdQueries :
            /\ resp' = IF loaded.ok THEN GetResult(loaded.entries, id)
                       ELSE Rethrow("notes.get", id, loaded)
            /\ UNCHANGED <<file, dirExists, writes, file0>>

FindResult(entries, contains) ==
    Response("notes.find", contains, "ok",
             formatEntries(MatchesContaining(entries, contains), NoNotesMatched))

NotesFind ==
    \E loaded \in {loadEntries(file)} :
        \E contains \in Needles :
            /\ resp' = IF loaded.ok THEN FindResult(loaded.entries, contains)
                       ELSE Rethrow("notes.find", contains, loaded)
            /\ UNCHANGED <<file, dirExists, writes, file0>>

QuestionsAsk ==
    \E question \in Questions :
        /\ resp' = Response("questions.ask", question, "ok", question)
        /\ UNCHANGED <<file, dirExists, writes, file0>>

TeachAsk ==
    \E question \in Questions :
        /\ resp' = Response("teach.ask", question, "ok", question)
        /\ UNCHANGED <<file, dirExists, writes, file0>>

(***************************************************************************)
(* Specifications.                                                         *)
(***************************************************************************)
Calls(limit) == NotesStore(StoreArgs, limit) \/ TeachRequest(limit) \/ TeachNote(limit)

Steps ==
    \/ \E i \in 1..Len(writes) : EnsureStoreDir(i)
    \/ \E i \in 1..Len(writes) : AppendFile(i)

StoreReads == NotesList \/ NotesListKind \/ NotesGet \/ NotesFind

Echoes == QuestionsAsk \/ TeachAsk

\* The server: calls are dispatched as they come, the steps of the calls
\* in flight interleave.
Next == Calls(MaxServed) \/ Steps \/ StoreReads \/ Echoes

Spec == Init /\ [][Next]_vars

\* Writers alone, on the store files of StartFiles.
NextStore == Calls(MaxServed) \/ Steps

SpecStore == Init /\ [][NextStore]_vars

\* Writers alone, on a store with no entry.
NextWriters == Calls(MaxWrites) \/ Steps

SpecWriters == InitWith(FreshFiles) /\ [][NextWriters]_vars

\* No call of writes is in flight.
Settled == \A i \in 1..Len(writes) : writes[i].pc \in {"done", "failed"}

\* Writers whose caller awaits each call before it issues the next.
NextInTurn == (Settled /\ Calls(MaxWrites)) \/ Steps

SpecInTurn == InitWith(FreshFiles) /\ [][NextInTurn]_vars

\* Readers alone, on every store file of InitContents.
SpecReaders ==
    InitWith({NoFile} \cup {FileOf(c) : c \in InitContents}) /\ [][StoreReads]_vars

\* Arguments of notes.store for the codec: every text of at most
\* MaxTextLen characters of CodecChars, file and kind absent, empty or not.
CodecChars == {"a", LF, CR, QUOTE, BSL}

RECURSIVE Texts(_)
Texts(n) ==
    IF n = 0 THEN {<<>>}
    ELSE Texts(n - 1) \cup {Append(t, c) : t \in Texts(n - 1), c \in CodecChars}

CodecArgs ==
    [text : Texts(MaxTextLen), file : {Absent, Some(<<>>), Some(<<"f", QUOTE>>)},
     timestamp : {Absent, Some(<<"T">>)},
     kind : {Absent, Some(<<>>), Some(<<"k", LF>>)}]

\* One notes.store call on a store with no file, and notes.list.
NextCodec == NotesStore(CodecArgs, 1) \/ Steps \/ NotesList

SpecCodec == InitWith({NoFile}) /\ [][NextCodec]_vars

(***************************************************************************)
(* Properties.                                                             *)
(***************************************************************************)
IsDone(w) == w.pc = "done"

\* The entries of the calls of ws that returned, in call order.
StoredOf(ws) ==
    LET done == SelectSeq(ws, IsDone) IN [k \in 1..Len(done) |-> done[k].entry]

Stored == StoredOf(writes)

\* s is the beginning of t.
IsPrefix(s, t) == Len(s) <= Len(t) /\ SubSeq(t, 1, Len(s)) = s

\* tail is the end of text.
EndsWith(text, tail) ==
    Len(tail) <= Len(text)
    /\ SubSeq(text, Len(text) - Len(tail) + 1, Len(text)) = tail

\* The characters of text.
Chars(text) == {text[k] : k \in 1..Len(text)}

\* The least number of a non-empty set of numbers.
Least(S) == CHOOSE n \in S : \A m \in S : n <= m

\* The elements of es at the indexes I, in the order of es.
Picked(es, I) ==
    [k \in 1..Cardinality(I) |->
        es[CHOOSE i \in I : Cardinality({j \in I : j < i}) = k - 1]]

\* C1: on a store path where no file exists, after any number of approved
\* write calls made one after another, loadEntries succeeds and returns
\* the entries of the calls that returned, in call order and equal in every
\* field; with no call made it returns the empty sequence.
AppendsThenLoad == ~file0.exists => loadEntries(file) = LoadOk(Stored)

\* Two calls of different tools returned, the first with no kind and no
\* file, the second with a kind other than the first's.
AppendsThenLoadSeen ==
    /\ ~file0.exists
    /\ Len(Stored) = 2
    /\ Settled
    /\ writes[1].op = "notes.store"
    /\ writes[1].entry.kind = Absent
    /\ writes[2].op = "teach.note"

\* C2: a write tool's refusal is the one step a call with approved false
\* takes: it carries the fixed message and leaves the store file, its
\* directory and the calls in flight as they are.
RefusalLeavesStore ==
    [][(resp' # resp /\ resp'.op \in WriteOps
            /\ (resp'.outcome = "isError" \/ resp'.text = RefusalText))
        => /\ resp' = Response(resp'.op, <<>>, "isError", RefusalText)
           /\ file' = file
           /\ dirExists' = dirExists
           /\ writes' = writes]_vars

\* teach.note was refused while an approved call was about to append, on a
\* store with no file.
RefusalLeavesStoreSeen ==
    /\ resp.op = "teach.note"
    /\ resp.outcome = "isError"
    /\ ~file.exists
    /\ Len(writes) = 1
    /\ writes[1].pc = "append"

\* Whether line decodes to a NoteEntry.
Decodes(line) == LET v == JsonParse(line) IN v.ok /\ isNoteEntry(v)

\* The numbers of the non-empty lines of content that do not.
BadLines(content) ==
    LET lines == SplitLines(content)
    IN  {n \in 1..Len(lines) : lines[n] # <<>> /\ ~Decodes(lines[n])}

\* C3: when a non-empty line of the store file decodes to no NoteEntry,
\* loadEntries fails, names the number of the first such line and returns
\* no entry, and the four reading tools fail with that error.
LoadFailsAtFirstBadLine ==
    (file.exists /\ BadLines(file.content) # {}) =>
        LET n == Least(BadLines(file.content))
            loaded == loadEntries(file)
        IN  /\ ~loaded.ok
            /\ loaded.entries = <<>>
            /\ loaded.line = n
            /\ resp.op \in StoreReadOps =>
                   /\ resp.outcome = "throws"
                   /\ resp.text = LoadErrorMessage(loaded)
                   /\ EndsWith(resp.text, <<" ", "a", "t", " ", "l", "i", "n", "e", " ">> \o ToDecimal(n) \o <<".">>)

\* notes.find failed on line 3, a line whose kind is null, after an entry
\* ended by CR LF and a blank line.
LoadFailsAtFirstBadLineSeen ==
    /\ file.content = LineB \o <<CR, LF, LF>> \o LineNullKind \o <<LF>>
    /\ resp.op = "notes.find"
    /\ resp.outcome = "throws"
    /\ EndsWith(resp.text, <<  "e", "n", "t", "r", "y", " ", "a", "t", " ", "l", "i", "n", "e", " ",
      "3", ".">>)

\* C4: a step that answers a reading tool (notes.list, notes.list_kind,
\* notes.get, notes.find, questions.ask, teach.ask) leaves the store file
\* and its directory as they are, whatever the answer.
ReadsChangeNothing ==
    [][(resp' # resp /\ resp'.op \in ReadOps)
        => /\ file' = file
           /\ dirExists' = dirExists
           /\ writes' = writes]_vars

\* notes.list answered on a store with no file and no directory.
ReadsChangeNothingSeen ==
    /\ resp.op = "notes.list"
    /\ resp.text = NoNotesStored
    /\ ~file.exists
    /\ ~dirExists

\* C5: the line JSON.stringify makes of an entry holds no line break and
\* decodes to an entry equal to it in every field, an absent field absent
\* and a present one with the same characters; once appended to an absent
\* file, loadEntries returns that entry alone.
RoundTrip ==
    \A i \in 1..Len(writes) :
        LET e == writes[i].entry
            line == Stringify(e)
            v == JsonParse(line)
        IN  /\ Chars(line) \cap {LF, CR} = {}
            /\ v.ok
            /\ isNoteEntry(v)
            /\ AsEntry(v) = e
            /\ writes[i].pc = "done" => loadEntries(file) = LoadOk(<<e>>)

\* An entry was written whose text holds a line feed and a quote, whose
\* kind is absent and whose file is the empty string.
RoundTripSeen ==
    /\ Len(writes) = 1
    /\ writes[1].pc = "done"
    /\ writes[1].entry.text = <<LF, QUOTE>>
    /\ writes[1].entry.kind = Absent
    /\ writes[1].entry.file = Some(<<>>)

\* needle stands in text: text is some characters, needle, some characters.
Contains(text, needle) ==
    \E a \in 0..Len(text) :
        /\ a + Len(needle) <= Len(text)
        /\ \A k \in 1..Len(needle) : text[a + k] = needle[k]

\* C6: notes.list_kind answers with the entries whose kind is present and
\* is the query, character for character, and notes.find with the entries
\* whose text holds the needle, both in the order of the store; each
\* answers with its empty message exactly when no entry matches.
FiltersAreExact ==
    LET es == loadEntries(file).entries
        ofKind == {i \in 1..Len(es) : es[i].kind # Absent /\ es[i].kind[1] = resp.arg}
        holding == {i \in 1..Len(es) : Contains(es[i].text, resp.arg)}
    IN  /\ (resp.op = "notes.list_kind" /\ resp.outcome = "ok") =>
               /\ resp.text = formatEntries(Picked(es, ofKind), NoNotesForKind(resp.arg))
               /\ resp.text = NoNotesForKind(resp.arg) <=> ofKind = {}
        /\ (resp.op = "notes.find" /\ resp.outcome = "ok") =>
               /\ resp.text = formatEntries(Picked(es, holding), NoNotesMatched)
               /\ resp.text = NoNotesMatched <=> holding = {}

\* notes.list_kind for "k" answered on a store of two entries: of kind
\* "kk", then of kind "k".
FiltersAreExactSeen ==
    /\ file.content = LineB \o <<LF>> \o LineA2 \o <<LF>>
    /\ resp.op = "notes.list_kind"
    /\ resp.arg = <<"k">>
    /\ resp.text = formatEntry(loadEntries(file).entries[2])

\* C7: on a store that loads, notes.get answers with the rendering of the
\* first entry of the store that has the id asked for, and with the
\* not-found message for that id exactly when no entry has it.
GetReturnsFirstMatch ==
    resp.op = "notes.get" =>
        LET loaded == loadEntries(file)
            es == loaded.entries
            at == {i \in 1..Len(es) : es[i].id = resp.arg}
        IN  /\ resp.outcome = "throws" <=> ~loaded.ok
            /\ (loaded.ok /\ at = {}) =>
                   resp = Response("notes.get", resp.arg, "isError", NoNoteForId(resp.arg))
            /\ (loaded.ok /\ at # {}) =>
                   /\ resp.outcome = "ok"
                   /\ resp.text = formatEntry(es[Least(at)])
                   /\ resp.text # NoNoteForId(resp.arg)

\* notes.get answered on a store whose two entries share the id asked for
\* and differ in their text.
GetReturnsFirstMatchSeen ==
    /\ file.content = LineA2 \o <<LF>> \o LineA \o <<LF>>
    /\ resp.op = "notes.get"
    /\ resp.arg = <<"a", "1">>
    /\ resp.outcome = "ok"

\* The rendering of an entry with a line for each field that is present.
Rendering(e) ==
    Join(<<<<"i", "d", ":", " ">> \o e.id, <<"t", "i", "m", "e", "s", "t", "a", "m", "p", ":", " ">> \o e.timestamp>>
         \o (IF e.kind # Absent THEN <<<<"k", "i", "n", "d", ":", " ">> \o e.kind[1]>> ELSE <<>>)
         \o (IF e.file # Absent THEN <<<<"f", "i", "l", "e", ":", " ">> \o e.file[1]>> ELSE <<>>)
         \o <<<<"t", "e", "x", "t", ":">>, e.text>>,
         <<LF>>)

\* C8: formatEntry renders the id line, the timestamp line, a kind line
\* exactly when the kind is present, a file line exactly when the file is
\* present, the text: line and the text: notes.list of a store of one
\* entry answers with that rendering.
FormatShowsPresentFields ==
    (resp.op = "notes.list" /\ resp.outcome = "ok" /\ resp.text # NoNotesStored) =>
        /\ Len(Stored) = 1
        /\ resp.text = Rendering(Stored[1])

\* The store file ends its last line: it is absent, empty, or ends with LF.
Terminated(f) == f.content = <<>> \/ f.content[Len(f.content)] = LF

\* Call i returns in this step: its appendFile is done.
Returns(i) == writes[i].pc = "append" /\ writes'[i].pc = "done"

OnePerWrite(es, ds) ==
    /\ Len(es) = Len(ds)
    /\ \A k \in 1..Len(ds) : Cardinality({j \in 1..Len(es) : es[j] = ds[k]}) = 1

\* C10: with approved writes in flight together on a store with no entry,
\* their steps in any order, the store loads at every moment and holds one
\* entry for each call that returned and nothing else; what it held before
\* a step is the beginning of what it holds after.
WritesLandWhole ==
    /\ loadEntries(file) = LoadOk(<<>>)
    /\ [][IF file' = file THEN StoredOf(writes') = Stored
          ELSE \E before \in {loadEntries(file)}, after \in {loadEntries(file')} :
                   /\ before.ok
                   /\ after.ok
                   /\ IsPrefix(before.entries, after.entries)
                   /\ OnePerWrite(after.entries, StoredOf(writes'))]_vars

\* Two calls were in flight together and returned in the other order.
WritesLandWholeSeen ==
    /\ Len(writes) = 2
    /\ Settled
    /\ Len(Stored) = 2
    /\ loadEntries(file).entries = <<writes[2].entry, writes[1].entry>>

====
